---- MODULE Spec2Model ----
(***************************************************************************)
(* Model of montecarlo_wrapper.cpp: an MPI program in which every rank     *)
(* runs runMonteCarloDecay over a strided subset of the trial indices,     *)
(* the non-zero ranks send their local best Result to rank 0, rank 0 folds *)
(* the records with isBetter and prints the overall best, and all ranks    *)
(* meet in MPI_Barrier before rank 0 prints the timing line.               *)
(*                                                                         *)
(* Doubles are modelled on an integer grid.  Lifetimes are multiples of    *)
(* (Eps - 1) grid units, so that two neighbouring lifetimes differ by less *)
(* than eps and lifetimes two steps apart differ by more than eps.         *)
(***************************************************************************)
EXTENDS Integers, Sequences, FiniteSets

(* ------------------------------ bounds --------------------------------- *)
\* largest numSimulations (--n) explored
MaxN == 3
\* largest communicator size explored
MaxW == 3
\* lifetimes explored are 0, (Eps-1), ..., MaxLife*(Eps-1)
MaxLife == 2
\* initial altitudes explored are 1..MaxAlt
MaxAlt == 3

(* -------------------------- program constants -------------------------- *)
\* isBetter's default eps (1e-9), in grid units
Eps == 3
\* the message tag of the local-best exchange
TAG == 42

Lifetimes == {k * (Eps - 1) : k \in 0..MaxLife}
Altitudes == 1..MaxAlt

VARIABLES
    numSimulations, \* main's numSim, the same on every rank
    size,           \* MPI_Comm_size
    pc,             \* pc[rank]: where the rank is in main / runMonteCarloDecay
    i,              \* i[rank]: the loop variable of the strided loop
    t,              \* t[rank]: the Trial generated for the current index
    localBest,      \* localBest[rank]
    globalBest,     \* rank 0's globalBest
    received,       \* rank 0's receive-loop counter
    chan,           \* chan[src]: messages sent by src to rank 0, not yet received
    out,            \* rank-tagged final lines written to stdout, in order
    progress,       \* progress[rank]: ids of the per-trial lines the rank printed
    processed,      \* processed[rank]: indices the rank ran, in order (history)
    results,        \* results[index]: Results returned for the index (history)
    sends,          \* sends[rank]: number of MPI_Send calls made (history)
    recvSrc,        \* sources of the messages rank 0 received, in order (history)
    fileOps,        \* accesses to per-trial files so far: [rank, file, op] (history)
    args,           \* function harness: the inputs handed to the function
    verdict,        \* function harness: the function's answer for args
    randNext,       \* generator harness: libc's rand() as a transition function
    rng,            \* generator harness: rng[p], the rand() state of process p
    generated       \* generator harness: generated[index], the Trials made for it

progVars == <<numSimulations, size, pc, i, t, localBest, globalBest, received,
              chan, out, progress, processed, results, sends, recvSrc, fileOps>>
cmpVars == <<args, verdict>>
genVars == <<randNext, rng, generated>>
vars == <<numSimulations, size, pc, i, t, localBest, globalBest, received,
          chan, out, progress, processed, results, sends, recvSrc, fileOps,
          args, verdict, randNext, rng, generated>>

Ranks == 0..(size - 1)
Indices == 0..(numSimulations - 1)

(* ------------------------------- data ---------------------------------- *)
\* struct Trial; Cd and A2M are never read after generation
Trial(h0) == [h0_km |-> h0]
Trials == {Trial(h) : h \in Altitudes}

\* Trial t; (uninitialised until generateRandomLEO fills it) and Result{}
NoTrial == [h0_km |-> 0]
ZeroResult == [id |-> 0, lifetime_days |-> 0, end_alt_km |-> 0,
               trial |-> NoTrial, ok |-> FALSE]

\* Result localBest{}; localBest.ok = false;
Sentinel == [ZeroResult EXCEPT !.ok = FALSE]

(* ------------------------ the engine's report -------------------------- *)
\* The report file traj_<id>.csv when system() has returned: missing, or a
\* sequence of lines, each a sequence of whitespace-separated tokens.  A
\* token is a number ("121.9"), a number with other characters behind it
\* ("121.9km"), or text that does not start a number ("abc").
Num(v) == [kind |-> "num", val |-> v]
NumJunk(v) == [kind |-> "numjunk", val |-> v]
Junk == [kind |-> "junk", val |-> 0]
File(lines) == [exists |-> TRUE, lines |-> lines]
NoReport == [exists |-> FALSE, lines |-> <<>>]

\* The engine writes the start row at the trial's initial altitude and epoch
\* 0, and the end row at the elapsed time with the altitude it stopped at.
Reports(tr) == {NoReport} \cup
    {File(<< <<Num(0), Num(tr.h0_km)>>, <<Num(l), Num(0)>> >>) : l \in Lifetimes}

\* the parser reads two rows of two values
ReportRows == 2
ReportCols == 2

\* iss >> x >> y: operator>> skips whitespace and reads the longest numeric
\* prefix; it fails when there is none, and what follows a number that was
\* read stays in the stream for the next extraction
ReadPair(line) ==
    IF /\ Len(line) >= ReportCols
       /\ line[1].kind = "num"
       /\ line[2].kind \in {"num", "numjunk"}
    THEN [ok |-> TRUE, x |-> line[1].val, y |-> line[2].val]
    ELSE [ok |-> FALSE, x |-> 0, y |-> 0]

ParseFailed == [ok |-> FALSE, startA1 |-> 0, startAlt |-> 0, endA1 |-> 0, endAlt |-> 0]

\* a parser that reads the start row twice
parseTwoLineReportSameRow(rep) ==
    IF ~rep.exists THEN ParseFailed
    ELSE IF Len(rep.lines) < 1 THEN ParseFailed
    ELSE IF ~ReadPair(rep.lines[1]).ok THEN ParseFailed
    ELSE [ok |-> TRUE,
          startA1 |-> ReadPair(rep.lines[1]).x, startAlt |-> ReadPair(rep.lines[1]).y,
          endA1 |-> ReadPair(rep.lines[1]).x, endAlt |-> ReadPair(rep.lines[1]).y]

parseTwoLineReport(rep) ==
    IF ~rep.exists THEN ParseFailed
    ELSE IF Len(rep.lines) < 1 THEN ParseFailed
    ELSE IF ~ReadPair(rep.lines[1]).ok THEN ParseFailed
    ELSE IF Len(rep.lines) < ReportRows THEN ParseFailed
    ELSE IF ~ReadPair(rep.lines[2]).ok THEN ParseFailed
    ELSE [ok |-> TRUE,
          startA1 |-> ReadPair(rep.lines[1]).x, startAlt |-> ReadPair(rep.lines[1]).y,
          endA1 |-> ReadPair(rep.lines[2]).x, endAlt |-> ReadPair(rep.lines[2]).y]

\* runSingleTrajectory taking the start row's values for the result
runSingleTrajectoryStartRow(id, tr, rep) ==
    LET result == [ZeroResult EXCEPT !.id = id, !.trial = tr, !.ok = FALSE]
        p == parseTwoLineReport(rep)
    IN  IF ~p.ok
        THEN result
        ELSE [result EXCEPT !.lifetime_days = p.endA1,
                            !.end_alt_km = p.startAlt,
                            !.ok = TRUE]

runSingleTrajectory(id, tr, rep) ==
    LET result == [ZeroResult EXCEPT !.id = id, !.trial = tr, !.ok = FALSE]
        p == parseTwoLineReport(rep)
    IN  IF ~p.ok
        THEN result
        ELSE [result EXCEPT !.lifetime_days = p.endA1 - p.startA1,
                            !.end_alt_km = p.endAlt,
                            !.ok = TRUE]

(* ----------------------------- comparator ------------------------------ *)
\* isBetter with the tie-break written >= instead of >
isBetterTieGe(a, b) ==
    IF ~a.ok THEN FALSE
    ELSE IF ~b.ok THEN TRUE
    ELSE IF a.lifetime_days > b.lifetime_days + Eps THEN TRUE
    ELSE IF b.lifetime_days > a.lifetime_days + Eps THEN FALSE
    ELSE a.trial.h0_km >= b.trial.h0_km

\* isBetter with the first early return inverted
isBetterInvalidWins(a, b) ==
    IF ~a.ok THEN TRUE
    ELSE IF ~b.ok THEN TRUE
    ELSE IF a.lifetime_days > b.lifetime_days + Eps THEN TRUE
    ELSE IF b.lifetime_days > a.lifetime_days + Eps THEN FALSE
    ELSE a.trial.h0_km > b.trial.h0_km

isBetter(a, b) ==
    IF ~a.ok THEN FALSE
    ELSE IF ~b.ok THEN TRUE
    ELSE IF a.lifetime_days > b.lifetime_days + Eps THEN TRUE
    ELSE IF b.lifetime_days > a.lifetime_days + Eps THEN FALSE
    ELSE a.trial.h0_km > b.trial.h0_km

\* if (isBetter(x, best)) best = x;
Keep(best, x) == IF isBetter(x, best) THEN x ELSE best

(* --------------------------- strided loop ------------------------------ *)
FirstIndex(rank) == rank
\* the loop stepping by one instead of by size
NextIndexByOne(idx, sz) == idx + 1
\* the loop not advancing, so that an index is run again
NextIndexStay(idx, sz) == idx
NextIndex(idx, sz) == idx + sz
LoopCond(idx, n) == idx < n

(* --------------------------- per-trial files --------------------------- *)
\* "trajectory_" + to_string(id) + ".script", "traj_<id>.log", "traj_<id>.csv"
scriptName(id) == <<"trajectory_", id, ".script">>
logName(id) == <<"traj_", id, ".log">>
\* a report name that leaves the id out
csvNameShared(id) == <<"traj_", 0, ".csv">>
csvName(id) == <<"traj_", id, ".csv">>

FileOp(rank, file, op) == [rank |-> rank, file |-> file, op |-> op]

\* generateDecayScript(id, ...) writes the script
ScriptOps(rank, id) == {FileOp(rank, scriptName(id), "write")}
\* the engine started by system() reads the script, and writes the log its
\* output is redirected to and the report the script names
EngineOps(rank, id) ==
    {FileOp(rank, scriptName(id), "read"),
     FileOp(rank, logName(id), "write"),
     FileOp(rank, csvName(id), "write")}
\* parseTwoLineReport(csvAbs, ...) reads the report
ParseOps(rank, id) == {FileOp(rank, csvName(id), "read")}

(* ------------------------------ Init ----------------------------------- *)
ProgInit ==
    /\ numSimulations \in 0..MaxN
    /\ size \in 1..MaxW
    /\ pc = [r \in Ranks |-> "loop"]
    /\ i = [r \in Ranks |-> FirstIndex(r)]
    /\ t = [r \in Ranks |-> NoTrial]
    /\ localBest = [r \in Ranks |-> Sentinel]
    /\ globalBest = Sentinel
    /\ received = 0
    /\ chan = [r \in Ranks |-> <<>>]
    /\ out = <<>>
    /\ progress = [r \in Ranks |-> <<>>]
    /\ processed = [r \in Ranks |-> <<>>]
    /\ results = [x \in Indices |-> <<>>]
    /\ sends = [r \in Ranks |-> 0]
    /\ recvSrc = <<>>

\* the harness variables while a specification does not use them
CmpIdle == args = <<>> /\ verdict = <<>>
GenIdle == randNext = <<>> /\ rng = <<>> /\ generated = <<>>

Init ==
    /\ ProgInit
    /\ fileOps = {}
    /\ CmpIdle
    /\ GenIdle

(* ------------------------- runMonteCarloDecay -------------------------- *)
\* for (i = rank; i < numSimulations; ...): srand, generateRandomLEO,
\* generateDecayScript and the call of system() that starts the engine
LoopEnter(r) ==
    /\ pc[r] = "loop"
    /\ LoopCond(i[r], numSimulations)
    /\ \E tr \in Trials : t' = [t EXCEPT ![r] = tr]
    /\ processed' = [processed EXCEPT ![r] = Append(@, i[r])]
    /\ fileOps' = fileOps \cup ScriptOps(r, i[r]) \cup EngineOps(r, i[r])
    /\ pc' = [pc EXCEPT ![r] = "engine"]
    /\ UNCHANGED <<numSimulations, size, i, localBest, globalBest, received, chan,
                   out, progress, results, sends, recvSrc, args, verdict, genVars>>

\* system() returns; the report is parsed; the loop body finishes; i += size
EngineReturn(r) ==
    /\ pc[r] = "engine"
    /\ \E rep \in Reports(t[r]) :
         LET res == runSingleTrajectory(i[r], t[r], rep)
         IN  /\ results' = [results EXCEPT ![i[r]] = Append(@, res)]
             /\ IF res.ok
                THEN /\ progress' = [progress EXCEPT ![r] = Append(@, res.id)]
                     /\ localBest' = [localBest EXCEPT ![r] = Keep(@, res)]
                ELSE UNCHANGED <<progress, localBest>>
    /\ fileOps' = fileOps \cup ParseOps(r, i[r])
    /\ i' = [i EXCEPT ![r] = NextIndex(@, size)]
    /\ pc' = [pc EXCEPT ![r] = "loop"]
    /\ UNCHANGED <<numSimulations, size, t, globalBest, received, chan, out,
                   processed, sends, recvSrc, args, verdict, genVars>>

\* system() never returns: there is no timeout around it
EngineHang(r) ==
    /\ pc[r] = "engine"
    /\ pc' = [pc EXCEPT ![r] = "hung"]
    /\ UNCHANGED <<numSimulations, size, i, t, localBest, globalBest, received, chan,
                   out, progress, processed, results, sends, recvSrc, args, verdict, genVars, fileOps>>

\* the loop condition fails; rank 0 seeds globalBest, the others go to MPI_Send
LoopExit(r) ==
    /\ pc[r] = "loop"
    /\ ~LoopCond(i[r], numSimulations)
    /\ IF r = 0
       THEN /\ globalBest' = localBest[0]
            /\ received' = 1
            /\ pc' = [pc EXCEPT ![r] = "recv"]
       ELSE /\ pc' = [pc EXCEPT ![r] = "send"]
            /\ UNCHANGED <<globalBest, received>>
    /\ UNCHANGED <<numSimulations, size, i, t, localBest, chan, out, progress,
                   processed, results, sends, recvSrc, args, verdict, genVars, fileOps>>

\* MPI_Send(&localBest, ..., 0, 42, ...): a standard-mode send either is
\* buffered and returns at once, or returns only when rank 0 has received it
\* a message whose record is relabelled with the sender's rank
MessageRetagged(r) ==
    [src |-> r, tag |-> TAG, data |-> [localBest[r] EXCEPT !.id = r]]

Message(r) == [src |-> r, tag |-> TAG, data |-> localBest[r]]

SendBuffered(r) ==
    /\ pc[r] = "send"
    /\ chan' = [chan EXCEPT ![r] = Append(@, Message(r))]
    /\ sends' = [sends EXCEPT ![r] = @ + 1]
    /\ pc' = [pc EXCEPT ![r] = "barrier"]
    /\ UNCHANGED <<numSimulations, size, i, t, localBest, globalBest, received, out,
                   progress, processed, results, recvSrc, args, verdict, genVars, fileOps>>

SendRendezvous(r) ==
    /\ pc[r] = "send"
    /\ chan' = [chan EXCEPT ![r] = Append(@, Message(r))]
    /\ sends' = [sends EXCEPT ![r] = @ + 1]
    /\ pc' = [pc EXCEPT ![r] = "sending"]
    /\ UNCHANGED <<numSimulations, size, i, t, localBest, globalBest, received, out,
                   progress, processed, results, recvSrc, args, verdict, genVars, fileOps>>

SendComplete(r) ==
    /\ pc[r] = "sending"
    /\ chan[r] = <<>>
    /\ pc' = [pc EXCEPT ![r] = "barrier"]
    /\ UNCHANGED <<numSimulations, size, i, t, localBest, globalBest, received, chan,
                   out, progress, processed, results, sends, recvSrc, args, verdict, genVars, fileOps>>

\* the receive loop stopping one message early
RecvCondEarly(rcvd, sz) == rcvd + 1 < sz
\* the receive loop waiting for one message too many
RecvCondLate(rcvd, sz) == rcvd <= sz

\* the receive loop skipped altogether
RecvCondNone(rcvd, sz) == FALSE

\* for (received = 1; received < size; received++)
RecvCond(rcvd, sz) == rcvd < sz

\* MPI_Recv(&rcv, ..., MPI_ANY_SOURCE, 42, ...) matches the oldest message of
\* any source; then the fold step and received++
Recv(src) ==
    /\ pc[0] = "recv"
    /\ RecvCond(received, size)
    /\ chan[src] # <<>>
    /\ Head(chan[src]).tag = TAG
    /\ LET rcv == Head(chan[src]).data
       IN  globalBest' = Keep(globalBest, rcv)
    /\ chan' = [chan EXCEPT ![src] = Tail(@)]
    /\ received' = received + 1
    /\ recvSrc' = Append(recvSrc, src)
    /\ UNCHANGED <<numSimulations, size, pc, i, t, localBest, out, progress,
                   processed, results, sends, args, verdict, genVars, fileOps>>

\* the [RESULT] line of rank 0
ResultLine(best) ==
    IF best.ok THEN [rank |-> 0, kind |-> "best", id |-> best.id]
    ELSE [rank |-> 0, kind |-> "none", id |-> 0]

\* the receive loop ends; rank 0 prints the overall best and returns to main,
\* where it enters MPI_Barrier
Report ==
    /\ pc[0] = "recv"
    /\ ~RecvCond(received, size)
    /\ out' = Append(out, ResultLine(globalBest))
    /\ pc' = [pc EXCEPT ![0] = "barrier"]
    /\ UNCHANGED <<numSimulations, size, i, t, localBest, globalBest, received, chan,
                   progress, processed, results, sends, recvSrc, args, verdict, genVars, fileOps>>

(* -------------------------------- main --------------------------------- *)
\* a barrier that opens as soon as one rank has entered it
BarrierOpenAny == \E q \in Ranks : pc[q] \in {"barrier", "timing", "done"}

\* a barrier that never waits
BarrierOpenNoWait == TRUE

\* MPI_Barrier returns on a rank once every rank has entered it
BarrierOpen == \A q \in Ranks : pc[q] \in {"barrier", "timing", "done"}

BarrierPass(r) ==
    /\ pc[r] = "barrier"
    /\ BarrierOpen
    /\ pc' = [pc EXCEPT ![r] = IF r = 0 THEN "timing" ELSE "done"]
    /\ UNCHANGED <<numSimulations, size, i, t, localBest, globalBest, received, chan,
                   out, progress, processed, results, sends, recvSrc, args, verdict, genVars, fileOps>>

\* if (rank == 0) the [TIMING] line; MPI_Finalize; return 0
Timing ==
    /\ pc[0] = "timing"
    /\ out' = Append(out, [rank |-> 0, kind |-> "timing", id |-> 0])
    /\ pc' = [pc EXCEPT ![0] = "done"]
    /\ UNCHANGED <<numSimulations, size, i, t, localBest, globalBest, received, chan,
                   progress, processed, results, sends, recvSrc, args, verdict, genVars, fileOps>>

Next ==
    \/ \E r \in Ranks : LoopEnter(r)
    \/ \E r \in Ranks : EngineReturn(r)
    \/ \E r \in Ranks : EngineHang(r)
    \/ \E r \in Ranks : LoopExit(r)
    \/ \E r \in Ranks : SendBuffered(r)
    \/ \E r \in Ranks : SendRendezvous(r)
    \/ \E r \in Ranks : SendComplete(r)
    \/ \E src \in Ranks : Recv(src)
    \/ Report
    \/ \E r \in Ranks : BarrierPass(r)
    \/ Timing

Spec == Init /\ [][Next]_vars

\* Scheduling: every rank is its own process and keeps running, and MPI
\* delivers a matching message to a posted receive.  A running engine is
\* not assumed to hang (EngineHang carries no fairness).
Fairness ==
    /\ \A r \in 0..(MaxW - 1) : WF_vars(r \in Ranks /\ LoopEnter(r))
    /\ \A r \in 0..(MaxW - 1) : WF_vars(r \in Ranks /\ EngineReturn(r))
    /\ \A r \in 0..(MaxW - 1) : WF_vars(r \in Ranks /\ LoopExit(r))
    /\ \A r \in 0..(MaxW - 1) : WF_vars(r \in Ranks /\ (SendBuffered(r) \/ SendRendezvous(r)))
    /\ \A r \in 0..(MaxW - 1) : WF_vars(r \in Ranks /\ SendComplete(r))
    /\ WF_vars(\E src \in Ranks : Recv(src))
    /\ WF_vars(Report)
    /\ \A r \in 0..(MaxW - 1) : WF_vars(r \in Ranks /\ BarrierPass(r))
    /\ WF_vars(Timing)

FairSpec == Init /\ [][Next]_vars /\ Fairness

(* ------------------------- comparator harness -------------------------- *)
\* Every Result the program can hold: what runSingleTrajectory returns for
\* some id, Trial and report, and the zero-initialised invalid record.
AllResults ==
    {Sentinel} \cup
    {runSingleTrajectory(id, tr, rep) :
        id \in 0..(MaxN - 1), tr \in Trials, rep \in UNION {Reports(x) : x \in Trials}}

CmpInit ==
    /\ numSimulations = 0
    /\ size = 1
    /\ pc = [r \in 0..0 |-> "loop"]
    /\ i = [r \in 0..0 |-> FirstIndex(r)]
    /\ t = [r \in 0..0 |-> NoTrial]
    /\ localBest = [r \in 0..0 |-> Sentinel]
    /\ globalBest = Sentinel
    /\ received = 0
    /\ chan = [r \in 0..0 |-> <<>>]
    /\ out = <<>>
    /\ progress = [r \in 0..0 |-> <<>>]
    /\ processed = [r \in 0..0 |-> <<>>]
    /\ results = <<>>
    /\ sends = [r \in 0..0 |-> 0]
    /\ recvSrc = <<>>
    /\ fileOps = {}
    /\ GenIdle
    /\ args \in [1..3 -> AllResults]
    /\ verdict = <<>>

\* isBetter applied to every ordered pair of the three arguments
Compare ==
    /\ verdict = <<>>
    /\ verdict' = [p \in (1..3) \X (1..3) |-> isBetter(args[p[1]], args[p[2]])]
    /\ UNCHANGED <<progVars, args, genVars>>

CmpNext == Compare

CmpSpec == CmpInit /\ [][CmpNext]_vars

(* ============================== claims ================================= *)
InLoop(r) == pc[r] \in {"loop", "engine", "hung"}
LoopsDone == \A r \in Ranks : ~InLoop(r)
FoldDone == pc[0] \in {"barrier", "timing", "done"}
AllDone == \A r \in Ranks : pc[r] = "done"
Last(s) == s[Len(s)]

\* the places <<rank, position>> at which an index was run
RunsOf(idx) ==
    {p \in Ranks \X (1..MaxN + 1) :
        p[2] <= Len(processed[p[1]]) /\ processed[p[1]][p[2]] = idx}

\* C1: the strided loops partition the indices: an index is never run twice
\* and only by rank (index mod size), a rank runs rank, rank+size, ... below
\* numSimulations, and once every loop has ended each index of
\* 0..numSimulations-1 was run exactly once.
C1_StridedPartition ==
    /\ \A r \in Ranks : \A k \in 1..Len(processed[r]) :
          /\ processed[r][k] = r + (k - 1) * size
          /\ processed[r][k] \in Indices
          /\ processed[r][k] % size = r
    /\ \A idx \in Indices : Cardinality(RunsOf(idx)) <= 1
    /\ LoopsDone =>
          \A idx \in Indices :
             /\ Cardinality(RunsOf(idx)) = 1
             /\ \A p \in RunsOf(idx) : p[1] = idx % size

C1_Witness ==
    /\ LoopsDone
    /\ numSimulations = MaxN
    /\ size = MaxW - 1
    /\ Len(processed[0]) > Len(processed[size - 1])

\* C4: isBetter is transitive over valid Results.
C4_Transitive ==
    verdict # <<>> =>
        \A x, y, z \in 1..3 :
            (args[x].ok /\ args[y].ok /\ args[z].ok
             /\ verdict[<<x, y>>] /\ verdict[<<y, z>>]) => verdict[<<x, z>>]

\* lifetimes equal within eps and equal initial altitudes
TrueTie(a, b) ==
    /\ a.lifetime_days - b.lifetime_days <= Eps
    /\ b.lifetime_days - a.lifetime_days <= Eps
    /\ a.trial.h0_km = b.trial.h0_km

\* C5: over valid Results, isBetter(a,b) is the negation of isBetter(b,a)
\* except on a true tie, where neither beats the other; never both.
C5_Antisymmetric ==
    verdict # <<>> =>
        \A x, y \in 1..3 :
            (args[x].ok /\ args[y].ok) =>
                /\ ~(verdict[<<x, y>>] /\ verdict[<<y, x>>])
                /\ TrueTie(args[x], args[y])
                      => (~verdict[<<x, y>>] /\ ~verdict[<<y, x>>])
                /\ ~TrueTie(args[x], args[y])
                      => (verdict[<<x, y>>] = ~verdict[<<y, x>>])

C5_Witness ==
    /\ verdict # <<>>
    /\ args[1].ok /\ args[2].ok /\ args[3].ok
    /\ TrueTie(args[1], args[2]) /\ args[1].lifetime_days # args[2].lifetime_days
    /\ ~TrueTie(args[1], args[3]) /\ verdict[<<3, 1>>]

\* the loop body's update of the best record: if (r.ok) { if (isBetter(r, best)) best = r; }
Fold(best, res) == IF res.ok THEN Keep(best, res) ELSE best

\* one sequential pass over the trials 0..k-1 in increasing order, from the
\* invalid sentinel, over the Results the run obtained
RECURSIVE SequentialBest(_)
SequentialBest(k) ==
    IF k = 0 THEN Sentinel
    ELSE Fold(SequentialBest(k - 1), Last(results[k - 1]))

\* no two valid Results of the run are truly tied (lifetimes within eps and
\* equal initial altitudes), so the comparator leaves no choice between them
NoTrueTies ==
    \A x, y \in Indices :
        (x # y /\ Last(results[x]).ok /\ Last(results[y]).ok)
            => ~TrueTie(Last(results[x]), Last(results[y]))

\* C2: the Global Best of a parallel run, whatever the worker count and the
\* arrival order, equals the sequential fold of the same per-trial Results
\* in increasing index order (stated for the runs without true ties).
C2_ParallelEqualsSequential ==
    (FoldDone /\ NoTrueTies) => globalBest = SequentialBest(numSimulations)

\* the coordinator's fold with the messages taken in rank order 1, 2, ...
RECURSIVE RankOrderBest(_)
RankOrderBest(k) ==
    IF k = 0 THEN localBest[0]
    ELSE Keep(RankOrderBest(k - 1), localBest[k])

\* C3: the coordinator's fold gives the same Global Best for every order in
\* which the messages arrive: the order they did arrive in gives what the
\* rank order 1, 2, ... gives (stated for the runs without true ties).
C3_OrderIndependent ==
    (FoldDone /\ NoTrueTies) => globalBest = RankOrderBest(size - 1)

AllFailed == \A idx \in Indices : \A k \in 1..Len(results[idx]) : ~results[idx][k].ok

\* C6: a step that offers an invalid Result (a failed trial, an invalid
\* received record) leaves the Local Best and the Global Best as they were;
\* and while no trial has succeeded every Local Best, every message and the
\* Global Best are invalid and the only final line is "No successful runs".
C6_InvalidNeverWins ==
    /\ [][ /\ \A r \in Ranks :
                (pc[r] = "engine" /\ pc'[r] = "loop" /\ ~Last(results'[i[r]]).ok)
                    => localBest'[r] = localBest[r]
           /\ \A src \in Ranks :
                (Len(chan'[src]) < Len(chan[src]) /\ ~Head(chan[src]).data.ok)
                    => globalBest' = globalBest
         ]_vars
    /\ [](AllFailed =>
            /\ \A r \in Ranks : ~localBest[r].ok
            /\ \A r \in Ranks : \A k \in 1..Len(chan[r]) : ~chan[r][k].data.ok
            /\ ~globalBest.ok
            /\ \A k \in 1..Len(out) : out[k].kind # "best"
            /\ FoldDone => out[1].kind = "none")

C6_Witness ==
    /\ AllFailed
    /\ numSimulations = MaxN
    /\ size = MaxW
    /\ AllDone

\* C7: once the fold is done and some trial succeeded, the Global Best is
\* valid and no valid Result of the run beats it; a worker's Local Best at
\* the end of its loop is beaten by no valid Result of its own trials.
C7_BestIsUnbeaten ==
    /\ (FoldDone /\ ~AllFailed) =>
          /\ globalBest.ok
          /\ \A idx \in Indices : ~isBetter(Last(results[idx]), globalBest)
    /\ \A r \in Ranks : ~InLoop(r) =>
          \A k \in 1..Len(processed[r]) :
             ~isBetter(Last(results[processed[r][k]]), localBest[r])

Range(s) == {s[k] : k \in 1..Len(s)}

\* C8: rank 0 never sends; every other rank sends exactly one message with
\* tag 42, after its loop, whatever its record; rank 0 receives size-1
\* messages, one of each other rank, and when it leaves the receive loop
\* nothing is left undelivered.
C8_OneMessagePerWorker ==
    /\ sends[0] = 0
    /\ \A r \in Ranks \ {0} :
          /\ sends[r] = (IF pc[r] \in {"sending", "barrier", "done"} THEN 1 ELSE 0)
          /\ Len(chan[r]) <= 1
          /\ \A k \in 1..Len(chan[r]) :
                chan[r][k] = [src |-> r, tag |-> TAG, data |-> localBest[r]]
    /\ Len(recvSrc) <= size - 1
    /\ Cardinality(Range(recvSrc)) = Len(recvSrc)
    /\ Range(recvSrc) \subseteq Ranks \ {0}
    /\ FoldDone =>
          /\ Len(recvSrc) = size - 1
          /\ Range(recvSrc) = Ranks \ {0}
          /\ \A r \in Ranks : chan[r] = <<>>
          /\ \A r \in Ranks \ {0} : sends[r] = 1

C8_Witness ==
    /\ AllDone
    /\ size = MaxW
    /\ numSimulations = 1
    /\ recvSrc[1] = size - 1
    /\ globalBest.ok

Hung == \E r \in Ranks : pc[r] = "hung"

\* some step of the program other than an engine hanging can be taken
CanProgress ==
    \/ \E r \in Ranks : ENABLED LoopEnter(r)
    \/ \E r \in Ranks : ENABLED EngineReturn(r)
    \/ \E r \in Ranks : ENABLED LoopExit(r)
    \/ \E r \in Ranks : ENABLED SendBuffered(r)
    \/ \E r \in Ranks : ENABLED SendComplete(r)
    \/ \E src \in Ranks : ENABLED Recv(src)
    \/ ENABLED Report
    \/ \E r \in Ranks : ENABLED BarrierPass(r)
    \/ ENABLED Timing

\* C9: while no engine invocation hangs, some rank can always take a step
\* until all ranks are done, and under fair scheduling every run in which no
\* engine invocation hangs ends with every rank past the barrier and done.
C9_Terminates ==
    /\ []((~Hung /\ ~AllDone) => CanProgress)
    /\ ([]~Hung) => <>AllDone

C9_Witness ==
    /\ AllDone
    /\ numSimulations = MaxN
    /\ size = MaxW
    /\ Len(out) = 2

\* C10: a rank whose engine invocation hangs stays where it is; from then on
\* no rank passes the barrier and no timing line is printed; and when the
\* hung rank is not rank 0, rank 0 does not get past its receive loop and
\* prints no final result line.
C10_HangBlocksAll ==
    /\ [][\A r \in Ranks : pc[r] = "hung" => (pc'[r] = "hung" /\ i'[r] = i[r])]_vars
    /\ [](Hung =>
            /\ \A q \in Ranks : pc[q] \notin {"timing", "done"}
            /\ \A k \in 1..Len(out) : out[k].kind # "timing")
    /\ []((\E r \in Ranks \ {0} : pc[r] = "hung") =>
            /\ pc[0] \in {"loop", "engine", "hung", "recv"}
            /\ out = <<>>)

C10_Witness ==
    /\ size = MaxW
    /\ pc[1] = "hung"
    /\ pc[0] = "recv"
    /\ pc[2] = "barrier"
    /\ received = 2

\* C11: a trial whose report cannot be parsed yields a Result with ok=false;
\* the step that finishes such a trial leaves the rank's Local Best and its
\* progress lines as they were and moves the rank on to index i+size; no
\* index is ever run twice, and once the loops have ended every index was
\* attempted exactly once, whether it succeeded or failed.
C11_FailedTrialIsSkipped ==
    /\ [](\A id \in Indices : \A tr \in Trials :
             ~runSingleTrajectory(id, tr, NoReport).ok)
    /\ [][\A r \in Ranks :
            (pc[r] = "engine" /\ pc'[r] = "loop" /\ ~Last(results'[i[r]]).ok) =>
                /\ localBest'[r] = localBest[r]
                /\ progress'[r] = progress[r]
                /\ i'[r] = i[r] + size
                /\ processed'[r] = processed[r]
         ]_vars
    /\ [](\A idx \in Indices :
             /\ Len(results[idx]) <= 1
             /\ Cardinality(RunsOf(idx)) <= 1)
    /\ [](LoopsDone =>
             \A idx \in Indices :
                /\ Len(results[idx]) = 1
                /\ Cardinality(RunsOf(idx)) = 1)

C11_Witness ==
    /\ size = 1
    /\ numSimulations = MaxN
    /\ LoopsDone
    /\ ~Last(results[0]).ok
    /\ Last(results[1]).ok
    /\ ~Last(results[2]).ok
    /\ localBest[0].id = 1

IsResultLine(l) == l.kind \in {"best", "none"}
LinesOf(kinds) == {k \in 1..Len(out) : out[k].kind \in kinds}

\* C13: every final line is written by rank 0; there is never more than one
\* result line nor more than one timing line; the result line is written
\* only when all size-1 messages have been received and folded, and it is
\* the best-result line exactly when the Global Best is valid; a finished
\* run has written exactly one result line followed by one timing line.
C13_OnlyCoordinatorReports ==
    /\ \A k \in 1..Len(out) : out[k].rank = 0
    /\ Cardinality(LinesOf({"best", "none"})) <= 1
    /\ Cardinality(LinesOf({"timing"})) <= 1
    /\ LinesOf({"best", "none"}) # {} =>
          /\ received = size
          /\ Len(recvSrc) = size - 1
          /\ \A r \in Ranks : chan[r] = <<>>
          /\ (LinesOf({"best"}) # {}) = globalBest.ok
          /\ \A k \in LinesOf({"best"}) : out[k].id = globalBest.id
    /\ AllDone =>
          /\ Len(out) = 2
          /\ IsResultLine(out[1])
          /\ out[2].kind = "timing"

C13_Witness ==
    /\ AllDone
    /\ size = MaxW
    /\ out[1].kind = "best"
    /\ out[1].id = 2

\* C19: the timing line is written only after every rank has left its loop,
\* every non-zero rank has sent its record, and rank 0 has finished the fold
\* and written the result line; and no rank is past the barrier while some
\* rank has not yet entered it.
C19_BarrierFollowsReduction ==
    /\ LinesOf({"timing"}) # {} =>
          /\ LoopsDone
          /\ \A r \in Ranks \ {0} : sends[r] = 1
          /\ Len(recvSrc) = size - 1
          /\ IsResultLine(out[1])
          /\ LinesOf({"timing"}) = {2}
    /\ \A r \in Ranks :
          pc[r] \in {"timing", "done"} =>
             \A q \in Ranks : pc[q] \in {"barrier", "timing", "done"}

C19_Witness ==
    /\ LinesOf({"timing"}) # {}
    /\ size = MaxW
    /\ numSimulations = MaxN
    /\ pc[size - 1] = "barrier"

\* C20: a Local Best is the invalid sentinel or an exact copy of the valid
\* Result of an index its rank has run (so id mod size = rank and id <
\* numSimulations); a message in flight carries its sender's Local Best
\* unchanged; the Global Best is the sentinel or an exact copy of the valid
\* Result of its trial and of the Local Best of the rank owning that trial.
C20_Provenance ==
    /\ \A r \in Ranks :
          \/ localBest[r] = Sentinel
          \/ /\ localBest[r].ok
             /\ localBest[r].id \in Indices
             /\ localBest[r].id % size = r
             /\ \E k \in 1..Len(processed[r]) : processed[r][k] = localBest[r].id
             /\ Len(results[localBest[r].id]) >= 1
             /\ localBest[r] = Last(results[localBest[r].id])
    /\ \A r \in Ranks : \A k \in 1..Len(chan[r]) : chan[r][k].data = localBest[r]
    /\ \/ globalBest = Sentinel
       \/ /\ globalBest.ok
          /\ globalBest.id \in Indices
          /\ globalBest = Last(results[globalBest.id])
          /\ globalBest = localBest[globalBest.id % size]

C20_Witness ==
    /\ FoldDone
    /\ size = MaxW
    /\ globalBest.ok
    /\ globalBest.id % size = 2
    /\ localBest[0].ok

\* C12: no per-trial file is ever written or read by two different ranks:
\* every access to trajectory_<i>.script, traj_<i>.log or traj_<i>.csv is
\* made by rank (i mod size), the owner of index i.
C12_FileOwnership ==
    /\ \A a, b \in fileOps : a.file = b.file => a.rank = b.rank
    /\ \A a \in fileOps :
          /\ a.file[2] \in Indices
          /\ a.rank = a.file[2] % size
          /\ \E k \in 1..Len(processed[a.rank]) : processed[a.rank][k] = a.file[2]

C12_Witness ==
    /\ size = MaxW
    /\ numSimulations = MaxN
    /\ LoopsDone
    /\ \A idx \in Indices :
          /\ FileOp(idx % size, scriptName(idx), "write") \in fileOps
          /\ FileOp(idx % size, logName(idx), "write") \in fileOps
          /\ FileOp(idx % size, csvName(idx), "read") \in fileOps

(* --------------------------- parser harness ---------------------------- *)
\* the program's variables while a harness specification runs
ProgIdle ==
    /\ numSimulations = 0
    /\ size = 1
    /\ pc = [r \in 0..0 |-> "loop"]
    /\ i = [r \in 0..0 |-> FirstIndex(r)]
    /\ t = [r \in 0..0 |-> NoTrial]
    /\ localBest = [r \in 0..0 |-> Sentinel]
    /\ globalBest = Sentinel
    /\ received = 0
    /\ chan = [r \in 0..0 |-> <<>>]
    /\ out = <<>>
    /\ progress = [r \in 0..0 |-> <<>>]
    /\ processed = [r \in 0..0 |-> <<>>]
    /\ results = <<>>
    /\ sends = [r \in 0..0 |-> 0]
    /\ recvSrc = <<>>
    /\ fileOps = {}

\* numbers that appear in the explored report files
MaxVal == 1

Tokens == {Num(v) : v \in 0..MaxVal} \cup {NumJunk(MaxVal), Junk}
SeqsUpTo(S, n) == UNION {[1..k -> S] : k \in 0..n}
\* lines of up to one token more than the parser reads
ReportLines == SeqsUpTo(Tokens, ReportCols + 1)
\* a line after the rows the parser reads: empty or text
TrailingLines == {<<>>, <<Junk>>}
\* a missing file, files of up to two lines, and files with one line more
ReportFiles ==
    {NoReport}
    \cup {File(ls) : ls \in SeqsUpTo(ReportLines, ReportRows)}
    \cup {File(Append(ls, x)) : ls \in [1..ReportRows -> ReportLines], x \in TrailingLines}

ParseInit ==
    /\ ProgIdle
    /\ GenIdle
    /\ args \in [id : 0..(MaxN - 1), trial : Trials, rep : ReportFiles]
    /\ verdict = <<>>

\* Result r = runSingleTrajectory(id, t, ...) once the engine has left the report
RunTrajectory ==
    /\ verdict = <<>>
    /\ verdict' = <<runSingleTrajectory(args.id, args.trial, args.rep)>>
    /\ UNCHANGED <<progVars, args, genVars>>

ParseNext == RunTrajectory

ParseSpec == ParseInit /\ [][ParseNext]_vars

Parsed == verdict # <<>>
\* the line is exactly two numbers
IsPair(line) == Len(line) = ReportCols /\ \A k \in 1..Len(line) : line[k].kind = "num"
\* the report is exactly two lines of two numbers each
WellFormed(rep) ==
    /\ rep.exists
    /\ Len(rep.lines) = ReportRows
    /\ \A k \in 1..Len(rep.lines) : IsPair(rep.lines[k])
\* one of the tokens on the first two lines is not a number
HasMalformedToken(rep) ==
    \E k \in 1..Len(rep.lines) :
        k <= ReportRows /\ \E j \in 1..Len(rep.lines[k]) : rep.lines[k][j].kind # "num"

StartsWithPair(line) ==
    /\ Len(line) >= ReportCols
    /\ line[1].kind = "num"
    /\ line[2].kind # "junk"

C16_ResultOfWellFormedReport ==
    (Parsed /\ WellFormed(args.rep)) =>
        /\ verdict[1].ok
        /\ verdict[1].id = args.id
        /\ verdict[1].lifetime_days = args.rep.lines[2][1].val - args.rep.lines[1][1].val
        /\ verdict[1].end_alt_km = args.rep.lines[2][2].val
        /\ verdict[1].trial = args.trial

C16_Witness ==
    /\ Parsed
    /\ WellFormed(args.rep)
    /\ args.id = MaxN - 1
    /\ args.rep.lines[1][1].val = 1
    /\ args.rep.lines[2][1].val = 0
    /\ args.rep.lines[1][2].val # args.rep.lines[2][2].val
    /\ verdict[1].lifetime_days = 0 - 1

(* ------------------------- command-line harness ------------------------ *)
\* int numSim = 50
DefaultNumSim == 50
\* the file header: "--n = Total number of Monte Carlo simulations (default: 100)"
DocumentedDefault == 100

\* arguments on the explored command lines
MaxArgs == 2

\* The text behind "--n=": atoi reads a leading integer and ignores what
\* follows it, and yields 0 when the text does not start with one.
Digits(v) == [lead |-> TRUE, v |-> v]
NoDigits == [lead |-> FALSE, v |-> 0]
atoi(txt) == IF txt.lead THEN txt.v ELSE 0

NOption(txt) == [key |-> "--n=", txt |-> txt]
OtherOptions == {[key |-> k, txt |-> NoDigits] : k \in {"--mass=", "--capDays=", "--n"}}
Options == {NOption(Digits(v)) : v \in (0 - 1)..MaxN} \cup {NOption(NoDigits)} \cup OtherOptions
CommandLines == SeqsUpTo(Options, MaxArgs)

RECURSIVE ParseFrom(_, _, _)
\* for (int i = 1; i < argc; i++): a later --n= replaces an earlier one
ParseFrom(argv, k, numSim) ==
    IF k > Len(argv) THEN numSim
    ELSE ParseFrom(argv, k + 1,
                   IF argv[k].key = "--n=" THEN atoi(argv[k].txt) ELSE numSim)

ParseArgs(argv) == ParseFrom(argv, 1, DefaultNumSim)

RECURSIVE TrialsFrom(_, _, _)
\* iterations of one rank's loop from index idx on
TrialsFrom(idx, n, sz) ==
    IF LoopCond(idx, n) THEN 1 + TrialsFrom(NextIndex(idx, sz), n, sz) ELSE 0

RECURSIVE TotalUpTo(_, _, _)
\* trials processed by ranks 0..r of sz
TotalUpTo(r, n, sz) ==
    IF r < 0 THEN 0 ELSE TrialsFrom(FirstIndex(r), n, sz) + TotalUpTo(r - 1, n, sz)

TotalTrials(n, sz) == TotalUpTo(sz - 1, n, sz)

ArgInit ==
    /\ ProgIdle
    /\ GenIdle
    /\ args \in [argv : CommandLines, np : 1..MaxW]
    /\ verdict = <<>>

\* main: parse the arguments, then every rank runs its share of the trials
Main ==
    /\ verdict = <<>>
    /\ verdict' = <<[numSim |-> ParseArgs(args.argv),
                     total |-> TotalTrials(ParseArgs(args.argv), args.np)]>>
    /\ UNCHANGED <<progVars, args, genVars>>

ArgNext == Main

ArgSpec == ArgInit /\ [][ArgNext]_vars

NoNOption(argv) == \A k \in 1..Len(argv) : argv[k].key # "--n="

\* C17 as stated: when --n is not given, the workers together process 100
\* trials, the documented default.
C17_DefaultIsDocumented ==
    (verdict # <<>> /\ NoNOption(args.argv)) => verdict[1].total = DocumentedDefault

(* ---------------------------- trial generator -------------------------- *)
\* #define GLOBAL_SEED 1234
GLOBAL_SEED == 1234

\* the largest value rand() returns in the explored C libraries
MaxRand == 2
RAND_MAX == MaxRand

\* The C library's generator is a state per process and a fixed transition
\* function, randNext, which is any function here.  The state is the value
\* last returned, so rand() can return every value in 0..RAND_MAX.
RandStates == 0..RAND_MAX
srand(seed) == seed % (RAND_MAX + 1)
\* a process that has not called srand draws as if it had called srand(1)
Unseeded == srand(1)

\* rand() / (double)RAND_MAX, as a fraction
urand(x) == [num |-> x, den |-> RAND_MAX]
\* (a + b * u) / scale, as a fraction
Affine(a, b, scale, u) == [num |-> a * u.den + b * u.num, den |-> scale * u.den]
\* q < a / scale
Below(q, a, scale) == q.num * scale < a * q.den

\* 0.005 + 0.045 * u in doubles: the sum at u = 1.0 rounds to
\* 0.049999999999999996, the double below 0.05; twice the scale leaves room
\* for that half step
AreaToMass(u) ==
    [num |-> 2 * (5 * u.den + 45 * u.num) - (IF u.num = u.den THEN 1 ELSE 0),
     den |-> 2000 * u.den]

\* three draws in the order of the assignments; 500 + 500 u and 2.0 + 0.6 u
\* are exact at u = 0 and u = 1
generateRandomLEO(f, st) ==
    LET r1 == f[st]
        r2 == f[r1]
        r3 == f[r2]
    IN  [trial |-> [h0_km |-> Affine(500, 500, 1, urand(r1)),
                    Cd |-> Affine(20, 6, 10, urand(r2)),
                    A2M |-> AreaToMass(urand(r3))],
         st |-> r3]

\* a loop that draws from the running stream
ReseedMissing(st, idx) == st

\* srand(GLOBAL_SEED + i)
Reseed(st, idx) == srand(GLOBAL_SEED + idx)

\* One execution of the program on sz ranks with n trials.  Two executions
\* are run one after the other on the same C library, and `first` keeps the
\* shape of the first one.
NewRun(run, first, sz, n) ==
    [run |-> run, first |-> first, size |-> sz, n |-> n,
     st |-> [r \in 0..(sz - 1) |-> Unseeded],
     idx |-> [r \in 0..(sz - 1) |-> FirstIndex(r)]]

GenInit ==
    /\ ProgIdle
    /\ CmpIdle
    /\ randNext \in [RandStates -> RandStates]
    /\ \E sz \in 1..MaxW, n \in 0..MaxN :
           rng = NewRun("first", [size |-> sz, n |-> n], sz, n)
    /\ generated = [idx \in 0..(MaxN - 1) |-> {}]

\* one iteration of rank r's loop up to the generation of the trial
Generate(r) ==
    /\ LoopCond(rng.idx[r], rng.n)
    /\ LET g == generateRandomLEO(randNext, Reseed(rng.st[r], rng.idx[r]))
       IN  /\ generated' = [generated EXCEPT ![rng.idx[r]] = @ \cup {g.trial}]
           /\ rng' = [rng EXCEPT !.st[r] = g.st,
                                 !.idx[r] = NextIndex(@, rng.size)]
    /\ UNCHANGED <<progVars, args, verdict, randNext>>

\* the program is started again, on any number of ranks
Restart ==
    /\ rng.run = "first"
    /\ \A r \in DOMAIN rng.idx : ~LoopCond(rng.idx[r], rng.n)
    /\ \E sz \in 1..MaxW, n \in 0..MaxN :
           rng' = NewRun("second", rng.first, sz, n)
    /\ UNCHANGED <<progVars, args, verdict, randNext, generated>>

GenNext ==
    \/ \E r \in DOMAIN rng.idx : Generate(r)
    \/ Restart

GenSpec == GenInit /\ [][GenNext]_vars

\* C14: the Trial generated for index i is the same whichever rank
\* generates it, on however many ranks, and whatever that rank generated
\* before: no index ever gets two different Trials.
C14_DeterminismByIndex ==
    \A idx \in DOMAIN generated : Cardinality(generated[idx]) <= 1

\* index MaxW - 1 was generated by rank 0 of a one-rank run after the
\* trials before it, and again as the first trial of the last rank of a
\* MaxW-rank run, on a library whose stream is not constant
C14_Witness ==
    /\ rng.run = "second"
    /\ rng.first.size = 1
    /\ rng.first.n = MaxN
    /\ rng.size = MaxW
    /\ rng.idx[MaxW - 1] > MaxW - 1
    /\ Cardinality(generated[MaxW - 1]) = 1
    /\ generated[0] # generated[MaxW - 1]

\* C18 as stated: every sample is below 1, so no generated altitude, drag
\* coefficient or area-to-mass reaches its upper endpoint 1000, 2.6, 0.05.
C18_BelowUpperEndpoints ==
    \A idx \in DOMAIN generated : \A tr \in generated[idx] :
        /\ Below(tr.h0_km, 1000, 1)
        /\ Below(tr.Cd, 26, 10)
        /\ Below(tr.A2M, 50, 1000)
====
